---- MODULE Spec2Model ----
(***************************************************************************)
(* A model of the request dispatcher of webdav-handler-rs                  *)
(* (src/src/davhandler.rs) and of its MKCOL handler                         *)
(* (src/src/handle_mkcol.rs).                                               *)
(*                                                                         *)
(* One request is followed from the entry point (handle / handle_with)     *)
(* through the construction of the request context (DavInner), the gates   *)
(* of handle2, the body drain loop of read_request, the method handler and *)
(* the error mapper of DavInner::handle.  The filesystem and the lock      *)
(* store are shared state that outlives a request.                          *)
(*                                                                         *)
(* Option<T> is a set with at most one element: None is {}, Some(x) is {x}.*)
(* A request body is a sequence of stream items; an item is a chunk of     *)
(* `len` bytes or a failed read.  The buffered data is kept as the list of *)
(* the chunk lengths appended, its byte length being their sum.            *)
(***************************************************************************)
EXTENDS Integers, Sequences, FiniteSets, TLC

\* ------------------------------------------------------------------ bounds
\* The longest body stream, in stream items.
MaxChunks == 2

\* ------------------------------------------------------- program constants
\* The cap handed to read_request by handle2.
MaxBodySize == 65536

\* ------------------------------------------------------------- Option<T>
None == {}
Some(x) == {x}
Unwrap(o) == CHOOSE x \in o : TRUE
OptOr(a, b) == IF a # {} THEN a ELSE b
UnwrapOr(o, d) == IF o # {} THEN Unwrap(o) ELSE d

\* ------------------------------------------------------------- methods
\* The closed operation enum (crate::util::Method).
Method == {"OPTIONS", "PROPFIND", "PROPPATCH", "MKCOL", "DELETE", "LOCK",
           "UNLOCK", "GET", "HEAD", "PUT", "PATCH", "COPY", "MOVE"}

\* The method tokens a request may carry: the thirteen above and one that
\* is outside the closed set.
HttpTokens == Method \cup {"TRACE"}

\* AllowedMethods::none(), add(), allowed().
AllowedNone == {}
AllowedAdd(a, m) == a \cup {m}
Allowed(a, m) == m \in a

\* ------------------------------------------------------------- results
\* DavResult<Response>: Ok(response) or Err(DavError).  A response is its
\* status, its Content-Location and Allow headers and its body.
NoRes == [tag |-> "none", code |-> 0, err |-> "", loc |-> None, allow |-> None,
          body |-> "empty"]
OkRes(code, loc, allow) ==
    [tag |-> "Ok", code |-> code, err |-> "", loc |-> loc, allow |-> allow,
     body |-> "empty"]
\* A response with a body of its own (the content of a GET).
OkContent(code) == [OkRes(code, None, None) EXCEPT !.body = "content"]
ErrStatus(code) ==
    [tag |-> "Status", code |-> code, err |-> "", loc |-> None, allow |-> None,
     body |-> "empty"]
ErrStatusClose(code) ==
    [tag |-> "StatusClose", code |-> code, err |-> "", loc |-> None, allow |-> None,
     body |-> "empty"]
ErrIo(kind) ==
    [tag |-> "IoError", code |-> 0, err |-> kind, loc |-> None, allow |-> None,
     body |-> "empty"]
ErrFs(e) ==
    [tag |-> "FsError", code |-> 0, err |-> e, loc |-> None, allow |-> None,
     body |-> "empty"]

\* The result is the plain or the closing status error with this code.
IsStatus(r, code) == r.tag \in {"Status", "StatusClose"} /\ r.code = code

\* dav_method: a token of the closed set is that operation, any other token
\* fails with 405.
dav_method(token) ==
    IF token \in Method
    THEN [ok |-> TRUE, m |-> token, e |-> NoRes]
    ELSE [ok |-> FALSE, m |-> "none", e |-> ErrStatus(405)]

\* ------------------------------------------------------------- paths
\* A URI: whether it parses, its segments, whether it ends in a slash.
Uris == { [ok |-> TRUE,  segs |-> <<"dav", "a">>,      slash |-> FALSE],
          [ok |-> TRUE,  segs |-> <<"dav", "a", "b">>, slash |-> TRUE],
          [ok |-> TRUE,  segs |-> <<"a">>,             slash |-> FALSE],
          [ok |-> FALSE, segs |-> <<"dav", "a">>,      slash |-> FALSE] }

NoPath == [segs |-> <<>>, col |-> FALSE, prefix |-> <<>>, set |-> FALSE]

IsPrefix(p, s) == Len(p) <= Len(s) /\ SubSeq(s, 1, Len(p)) = p

\* DavPath::from_uri: the path below the prefix, or an error when the URI
\* does not parse or does not begin with the prefix.
from_uri(uri, prefix) ==
    IF uri.ok /\ IsPrefix(prefix, uri.segs)
    THEN [ok |-> TRUE,
          p |-> [segs |-> SubSeq(uri.segs, Len(prefix) + 1, Len(uri.segs)),
                 col |-> uri.slash, prefix |-> prefix, set |-> TRUE],
          e |-> NoRes]
    ELSE [ok |-> FALSE, p |-> NoPath, e |-> ErrStatus(400)]

is_collection(p) == p.col
add_slash(p) == [p EXCEPT !.col = TRUE]
\* The prefix-qualified URL of a path: prefix, segments, trailing slash.
as_url_string_with_prefix(p) == [segs |-> p.prefix \o p.segs, slash |-> p.col]
parent(segs) == IF segs = <<>> THEN <<>> ELSE SubSeq(segs, 1, Len(segs) - 1)

\* ------------------------------------------------------------- bodies
Chunk(n) == [ok |-> TRUE, len |-> n]
ReadError == [ok |-> FALSE, len |-> 0]
StreamItems == {Chunk(0), Chunk(1), Chunk(MaxBodySize), ReadError}

RECURSIVE SeqsUpTo(_, _)
SeqsUpTo(S, n) ==
    IF n = 0 THEN {<<>>}
    ELSE LET shorter == SeqsUpTo(S, n - 1)
         IN  shorter \cup {Append(s, x) : s \in {t \in shorter : Len(t) = n - 1}, x \in S}

Bodies == SeqsUpTo(StreamItems, MaxChunks)

RECURSIVE SumLen(_)
SumLen(s) == IF s = <<>> THEN 0 ELSE s[1] + SumLen(Tail(s))

\* The chunk lengths of a body all of whose reads succeed.
RECURSIVE ChunkLens(_)
ChunkLens(b) == IF b = <<>> THEN <<>> ELSE <<b[1].len>> \o ChunkLens(Tail(b))
AllOk(b) == \A i \in 1..Len(b) : b[i].ok
TotalSize(b) == SumLen(ChunkLens(b))

\* ------------------------------------------------------------- config
\* DavConfig: six optional fields.
NoConfig == [prefix |-> None, fs |-> None, ls |-> None, allow |-> None,
             principal |-> None, hide_symlinks |-> None]

\* The configurations a handler is built with.
BaseConfigs ==
    { [prefix |-> p, fs |-> f, ls |-> l, allow |-> a,
       principal |-> None, hide_symlinks |-> None] :
        p \in {None, Some(<<"dav">>)},
        f \in {None, Some("void"), Some("real")},
        l \in {None, Some("ls")},
        a \in {None,
               Some(Method \ {"OPTIONS", "DELETE"}),
               Some({"OPTIONS", "MKCOL", "PUT", "PROPFIND", "GET"})} }

\* The per-request overrides handed to handle_with.
Overrides ==
    { NoConfig,
      [NoConfig EXCEPT !.ls = Some("ls"), !.principal = Some("alice")],
      [NoConfig EXCEPT !.fs = Some("real"), !.allow = Some({"OPTIONS", "MKCOL"}),
                       !.hide_symlinks = Some(FALSE)] }

\* merge keeping the receiver's allowed set when it has one.
merge_KeepsAllow(self, new) ==
    [prefix        |-> OptOr(new.prefix, self.prefix),
     fs            |-> OptOr(new.fs, self.fs),
     ls            |-> OptOr(new.ls, self.ls),
     allow         |-> OptOr(self.allow, new.allow),
     principal     |-> OptOr(new.principal, self.principal),
     hide_symlinks |-> OptOr(new.hide_symlinks, self.hide_symlinks)]

\* DavConfig::merge.
merge(self, new) ==
    [prefix        |-> OptOr(new.prefix, self.prefix),
     fs            |-> OptOr(new.fs, self.fs),
     ls            |-> OptOr(new.ls, self.ls),
     allow         |-> OptOr(new.allow, self.allow),
     principal     |-> OptOr(new.principal, self.principal),
     hide_symlinks |-> OptOr(new.hide_symlinks, self.hide_symlinks)]

\* DavInner before it is built.
NoInner == [prefix |-> <<>>, fs |-> "none", ls |-> None, allow |-> None,
            principal |-> None, hide_symlinks |-> None]

\* impl From<DavConfig> for DavInner: an absent filesystem is the void one.
FromConfig(cfg) ==
    [prefix        |-> UnwrapOr(cfg.prefix, <<>>),
     fs            |-> UnwrapOr(cfg.fs, "void"),
     ls            |-> cfg.ls,
     allow         |-> cfg.allow,
     principal     |-> cfg.principal,
     hide_symlinks |-> cfg.hide_symlinks]

\* impl From<&DavConfig> for DavInner: cfg.fs.clone().unwrap() panics on an
\* absent filesystem.
FromConfigRefPanics(cfg) == cfg.fs = None
FromConfigRef(cfg) ==
    [prefix        |-> UnwrapOr(cfg.prefix, <<>>),
     fs            |-> Unwrap(cfg.fs),
     ls            |-> cfg.ls,
     allow         |-> cfg.allow,
     principal     |-> cfg.principal,
     hide_symlinks |-> cfg.hide_symlinks]

is_voidfs(fs) == fs = "void"

\* ------------------------------------------------------------- backends
\* The lock store: a set of locks, each on a path, with a token and an owner.
Lock(p, t, o) == [path |-> p, token |-> t, owner |-> o]
\* The locks held when the handler starts: one, on /a.
InitialLocks == {Lock(<<"a">>, "t1", "alice")}

\* DavLockSystem::check: a conflict unless every lock on the path is held,
\* by its token being among the submitted ones and its owner the principal.
ls_check(lks, p, principal, toks) ==
    \A l \in lks :
        l.path = p.segs =>
            /\ \E i \in 1..Len(toks) : toks[i] = l.token
            /\ principal = Some(l.owner)

\* DavFileSystem::metadata on the set of existing directories.
fs_metadata(ds, p) == IF p.segs \in ds THEN Some([is_dir |-> TRUE]) ELSE None

\* DavFileSystem::create_dir: the results the backend may give.
fs_create_dir(ds, p) ==
    IF p.segs \in ds THEN {"Exists"}
    ELSE IF parent(p.segs) \notin ds THEN {"NotFound"}
    ELSE {"Ok", "GeneralFailure", "Forbidden"}

\* if_match_get_tokens: the tokens the request claims, or a failure status.
CondOutcomes == { [ok |-> TRUE,  toks |-> <<>>,     status |-> 0],
                  [ok |-> TRUE,  toks |-> <<"t1">>, status |-> 0],
                  [ok |-> FALSE, toks |-> <<>>,     status |-> 412] }

\* ------------------------------------------------------------- state
VARIABLES
    config,     \* DavHandler.config, shared by all requests
    dirs,       \* the filesystem backend: the directories that exist
    locks,      \* the lock store backend
    pc,         \* where the request in flight is
    entry,      \* the entry point called: "handle" or "handle_with"
    ovr,        \* the override configuration of handle_with
    req,        \* the request's method token and URI
    body,       \* the request's body stream, as received
    pos,        \* how many items have been read off the body stream
    inner,      \* the request context (DavInner)
    method,     \* the classified operation
    path,       \* the validated path
    body_strm,  \* handle2's body_strm
    body_data,  \* handle2's body_data: the chunk lengths buffered
    meta,       \* handle_mkcol's meta
    tokens,     \* handle_mkcol's tokens
    res,        \* the result of handle2
    resp,       \* the response the entry point returns
    log,        \* the reads and backend calls made for this request, in order
    ran,        \* the handler that was invoked and what it was handed
    fix,        \* fixpath's arguments (path, meta, response headers) and how often it ran
    mrg,        \* DavConfig::merge's receiver, argument and return value
    rq          \* the requests in flight at once in handle_mkcol and the lock handler

vars == <<config, dirs, locks, pc, entry, ovr, req, body, pos, inner, method,
          path, body_strm, body_data, meta, tokens, res, resp, log, ran,
          fix, mrg, rq>>

shared == <<config, dirs, locks>>
\* The state of the specifications of fixpath, of merge and of concurrent
\* requests, which the dispatcher of a single request leaves alone.
aux == <<fix, mrg, rq>>

NoReq == [method |-> "none", uri |-> [ok |-> FALSE, segs |-> <<>>, slash |-> FALSE]]
NoResp == [set |-> FALSE, status |-> 0, content_length_0 |-> FALSE,
           close |-> FALSE, no_cache |-> FALSE, loc |-> None, allow |-> None,
           body_empty |-> TRUE]
\* An entry of the log: the operation called and how it answered, with the
\* status it answered with when it gives one.
EventStatus(op, r, code) == [op |-> op, r |-> r, code |-> code]
Event(op, r) == EventStatus(op, r, 0)
NoRan == [h |-> "none", allow |-> None, strm |-> None, data |-> <<>>]

\* The per-request state before a request arrives.
Fresh ==
    /\ entry = "none" /\ ovr = NoConfig /\ req = NoReq /\ body = <<>> /\ pos = 0
    /\ inner = NoInner /\ method = "none" /\ path = NoPath
    /\ body_strm = None /\ body_data = <<>> /\ meta = None /\ tokens = <<>>
    /\ res = NoRes /\ resp = NoResp /\ log = <<>> /\ ran = NoRan

\* Nothing runs besides the single request.
NoFix == [path |-> NoPath, is_dir |-> FALSE, loc |-> None, n |-> 0,
          path0 |-> NoPath, loc0 |-> None]
NoMerge == [self |-> NoConfig, new |-> NoConfig, out |-> None]
NoRace == <<>>
Idle == fix = NoFix /\ mrg = NoMerge /\ rq = NoRace

Init ==
    /\ config \in BaseConfigs
    /\ dirs = {<<>>}
    /\ locks = InitialLocks
    /\ pc = "idle"
    /\ Fresh
    /\ Idle

\* ------------------------------------------------------------- entry points
\* DavHandler::handle / handle_with are called with a request: the request
\* is split into its head and its body stream.
Receive ==
    /\ pc = "idle"
    /\ \E e \in {"handle", "handle_with"}, o \in Overrides,
          m \in HttpTokens, u \in Uris, b \in Bodies :
        /\ (e = "handle" => o = NoConfig)
        /\ entry' = e
        /\ ovr' = o
        /\ req' = [method |-> m, uri |-> u]
        /\ body' = b
    /\ pc' = "from"
    /\ UNCHANGED <<shared, aux, pos, inner, method, path, body_strm, body_data, meta,
                   tokens, res, resp, log, ran>>

\* The request context is built: DavInner::from(&*self.config) in handle,
\* DavInner::from(self.config.merge(config)) in handle_with.
BuildInner ==
    /\ pc = "from"
    /\ IF entry = "handle"
       THEN IF FromConfigRefPanics(config)
            THEN pc' = "panic" /\ inner' = inner
            ELSE pc' = "classify" /\ inner' = FromConfigRef(config)
       ELSE pc' = "classify" /\ inner' = FromConfig(merge(config, ovr))
    /\ UNCHANGED <<shared, aux, entry, ovr, req, body, pos, method, path, body_strm,
                   body_data, meta, tokens, res, resp, log, ran>>

\* ------------------------------------------------------------- handle2
\* handle2 leaves with an error: the result goes to the mapper.
Fail(e) == res' = e /\ pc' = "map"

\* Classify with the classifier's error dropped: an unknown token is
\* handled as a GET.
Classify_Lenient ==
    /\ pc = "classify"
    /\ LET r == dav_method(req.method)
       IN  method' = IF r.ok THEN r.m ELSE "GET"
    /\ pc' = "voidgate"
    /\ UNCHANGED <<shared, aux, entry, ovr, req, body, pos, inner, path, body_strm,
                   body_data, meta, tokens, res, resp, log, ran>>

\* translate HTTP method to Webdav method.
Classify ==
    /\ pc = "classify"
    /\ LET r == dav_method(req.method)
       IN  IF r.ok
           THEN method' = r.m /\ pc' = "voidgate" /\ res' = res
           ELSE method' = method /\ Fail(r.e)
    /\ UNCHANGED <<shared, aux, entry, ovr, req, body, pos, inner, path, body_strm,
                   body_data, meta, tokens, resp, log, ran>>

\* VoidOptionsAllow adding OPTIONS to the configured set instead of to
\* AllowedMethods::none().
VoidOptionsAllow_Adds(allow) ==
    IF (IF allow # None THEN Allowed(Unwrap(allow), "OPTIONS") ELSE TRUE)
    THEN Some(AllowedAdd(UnwrapOr(allow, Method), "OPTIONS"))
    ELSE allow

\* The allowed set after the void-filesystem match on OPTIONS.
VoidOptionsAllow(allow) ==
    IF (IF allow # None THEN Allowed(Unwrap(allow), "OPTIONS") ELSE TRUE)
    THEN Some(AllowedAdd(AllowedNone, "OPTIONS"))
    ELSE allow

\* VoidRefuses without the refusal: the void gate lets every method through.
VoidRefuses_Never(fs, m) == FALSE

\* Without a filesystem every method but OPTIONS is refused.
VoidRefuses(fs, m) == is_voidfs(fs) /\ m # "OPTIONS"

\* VoidGate writing the forced allowed set into the handler's configuration
\* as well as into the context.
VoidGate_WritesConfig ==
    /\ pc = "voidgate"
    /\ IF VoidRefuses(inner.fs, method)
       THEN inner' = inner /\ config' = config /\ Fail(ErrStatusClose(405))
       ELSE /\ inner' = IF is_voidfs(inner.fs)
                        THEN [inner EXCEPT !.allow = VoidOptionsAllow(inner.allow)]
                        ELSE inner
            /\ config' = IF is_voidfs(inner.fs)
                         THEN [config EXCEPT !.allow = VoidOptionsAllow(inner.allow)]
                         ELSE config
            /\ pc' = "allowgate" /\ res' = res
    /\ UNCHANGED <<dirs, locks, aux, entry, ovr, req, body, pos, method, path,
                   body_strm, body_data, meta, tokens, resp, log, ran>>

\* See if method makes sense if we do not have a filesystem.
VoidGate ==
    /\ pc = "voidgate"
    /\ IF VoidRefuses(inner.fs, method)
       THEN inner' = inner /\ Fail(ErrStatusClose(405))
       ELSE /\ inner' = IF is_voidfs(inner.fs)
                        THEN [inner EXCEPT !.allow = VoidOptionsAllow(inner.allow)]
                        ELSE inner
            /\ pc' = "allowgate" /\ res' = res
    /\ UNCHANGED <<shared, aux, entry, ovr, req, body, pos, method, path, body_strm,
                   body_data, meta, tokens, resp, log, ran>>

\* MethodRefused with the test of the set dropped.
MethodRefused_Never(allow, m) == FALSE

\* see if method is allowed.
MethodRefused(allow, m) == allow # None /\ ~Allowed(Unwrap(allow), m)

\* AllowGate with the validation of the path moved in front of it.
AllowGate_PathFirst ==
    /\ pc = "allowgate"
    /\ IF ~from_uri(req.uri, inner.prefix).ok
       THEN Fail(ErrStatus(400))
       ELSE IF MethodRefused(inner.allow, method)
       THEN Fail(ErrStatusClose(405))
       ELSE pc' = "pathgate" /\ res' = res
    /\ UNCHANGED <<shared, aux, entry, ovr, req, body, pos, inner, method, path,
                   body_strm, body_data, meta, tokens, resp, log, ran>>

AllowGate ==
    /\ pc = "allowgate"
    /\ IF MethodRefused(inner.allow, method)
       THEN Fail(ErrStatusClose(405))
       ELSE pc' = "pathgate" /\ res' = res
    /\ UNCHANGED <<shared, aux, entry, ovr, req, body, pos, inner, method, path,
                   body_strm, body_data, meta, tokens, resp, log, ran>>

\* PathGate going on to the body when the URI does not give a path.
PathGate_Unchecked ==
    /\ pc = "pathgate"
    /\ LET r == from_uri(req.uri, inner.prefix)
       IN  path' = r.p /\ pc' = "bodysel" /\ res' = res
    /\ UNCHANGED <<shared, aux, entry, ovr, req, body, pos, inner, method, body_strm,
                   body_data, meta, tokens, resp, log, ran>>

\* make sure the request path is valid.
PathGate ==
    /\ pc = "pathgate"
    /\ LET r == from_uri(req.uri, inner.prefix)
       IN  IF r.ok
           THEN path' = r.p /\ pc' = "bodysel" /\ res' = res
           ELSE path' = path /\ Fail(r.e)
    /\ UNCHANGED <<shared, aux, entry, ovr, req, body, pos, inner, method, body_strm,
                   body_data, meta, tokens, resp, log, ran>>

\* Streams with PATCH left out of the streaming arm.
Streams_PutOnly(m) == m = "PUT"

\* PUT is the only handler that reads the body itself.
Streams(m) == m \in {"PUT", "PATCH"}

\* The match that selects (body_strm, body_data): PUT and PATCH keep the
\* stream, every other method enters read_request with an empty buffer.
BodySelect ==
    /\ pc = "bodysel"
    /\ IF Streams(method)
       THEN /\ body_strm' = Some(SubSeq(body, pos + 1, Len(body)))
            /\ pc' = "bodycheck"
       ELSE /\ body_strm' = None
            /\ pc' = "drain"
    /\ body_data' = <<>>
    /\ UNCHANGED <<shared, aux, entry, ovr, req, body, pos, inner, method, path,
                   meta, tokens, res, resp, log, ran>>

\* TooLarge with >= for >.
TooLarge_OffByOne(data, chunk, max_size) == SumLen(data) + chunk.len >= max_size

\* read_request's test of a chunk against the cap.
TooLarge(data, chunk, max_size) == SumLen(data) + chunk.len > max_size

\* ChunkError mapping the failed read to a plain status.
ChunkError_Status == ErrStatus(400)

\* chunk.map_err: the error a failed read of the body becomes.
ChunkError == ErrIo("UnexpectedEof")

\* One turn of read_request's loop: body.next().await, then the chunk is
\* mapped, tested against the cap and appended; the end of the stream
\* returns the buffer.
ReadChunk ==
    /\ pc = "drain"
    /\ IF pos < Len(body)
       THEN LET item == body[pos + 1]
            IN  /\ pos' = pos + 1
                /\ log' = Append(log, Event("read", IF item.ok THEN "Ok" ELSE "Err"))
                /\ IF ~item.ok
                   THEN body_data' = body_data /\ Fail(ChunkError)
                   ELSE IF TooLarge(body_data, item, MaxBodySize)
                   THEN body_data' = body_data /\ Fail(ErrStatus(413))
                   ELSE /\ body_data' = Append(body_data, item.len)
                        /\ pc' = "drain" /\ res' = res
       ELSE /\ pc' = "bodycheck"
            /\ UNCHANGED <<pos, log, body_data, res>>
    /\ UNCHANGED <<shared, aux, entry, ovr, req, body, inner, method, path, body_strm,
                   meta, tokens, resp, ran>>

\* AcceptsBody with LOCK left out of the arm.
AcceptsBody_NoLock(m) == m \in {"PUT", "PATCH", "PROPFIND", "PROPPATCH"}

\* Not all methods accept a body.
AcceptsBody(m) == m \in {"PUT", "PATCH", "PROPFIND", "PROPPATCH", "LOCK"}

BodyCheck ==
    /\ pc = "bodycheck"
    /\ IF ~AcceptsBody(method) /\ SumLen(body_data) > 0
       THEN Fail(ErrStatus(415))
       ELSE pc' = "dispatch" /\ res' = res
    /\ UNCHANGED <<shared, aux, entry, ovr, req, body, pos, inner, method, path,
                   body_strm, body_data, meta, tokens, resp, log, ran>>

\* ------------------------------------------------------------- handlers
\* The handler the final match of handle2 calls for a method.
HandlerOf(m) ==
    CASE m = "OPTIONS"            -> "handle_options"
      [] m = "PROPFIND"           -> "handle_propfind"
      [] m = "PROPPATCH"          -> "handle_proppatch"
      [] m = "MKCOL"              -> "handle_mkcol"
      [] m = "DELETE"             -> "handle_delete"
      [] m = "LOCK"               -> "handle_lock"
      [] m = "UNLOCK"             -> "handle_unlock"
      [] m \in {"HEAD", "GET"}    -> "handle_get"
      [] m \in {"PUT", "PATCH"}   -> "handle_put"
      [] m \in {"COPY", "MOVE"}   -> "handle_copymove"

\* What the match hands the handler: the context's allowed set, the body
\* stream (PUT and PATCH) and the buffered data.
Invoke(m) ==
    [h |-> HandlerOf(m), allow |-> inner.allow, strm |-> body_strm,
     data |-> body_data]

\* handle_options: no backend access; the effective allowed set is returned.
HandleOptions ==
    /\ pc = "dispatch" /\ method = "OPTIONS"
    /\ ran' = Invoke(method)
    /\ res' = OkRes(200, None, inner.allow)
    /\ pc' = "map"
    /\ UNCHANGED <<shared, aux, entry, ovr, req, body, pos, inner, method, path,
                   body_strm, body_data, meta, tokens, resp, log>>

\* The handlers of the other methods: the backend is called and the handler
\* answers with a response or a status.
HandleOther ==
    /\ pc = "dispatch" /\ method \notin {"OPTIONS", "MKCOL"}
    /\ ran' = Invoke(method)
    /\ log' = Append(log, Event("fs.other", "-"))
    /\ \E r \in {OkContent(200), ErrStatus(404)} : res' = r
    /\ pc' = "map"
    /\ UNCHANGED <<shared, aux, entry, ovr, req, body, pos, inner, method, path,
                   body_strm, body_data, meta, tokens, resp>>

\* handle_mkcol: let mut path = self.path(&req); let meta = self.fs.metadata(&path).
\* path() re-parses the URI and unwraps.
MkcolMetadata ==
    /\ pc = "dispatch" /\ method = "MKCOL"
    /\ ran' = Invoke(method)
    /\ LET r == from_uri(req.uri, inner.prefix)
       IN  IF r.ok
           THEN /\ path' = r.p
                /\ meta' = fs_metadata(dirs, r.p)
                /\ log' = Append(log, Event("fs.metadata",
                                  IF fs_metadata(dirs, r.p) # None THEN "Ok" ELSE "NotFound"))
                /\ pc' = "mk_cond"
           ELSE /\ pc' = "panic"
                /\ UNCHANGED <<path, meta, log>>
    /\ UNCHANGED <<shared, aux, entry, ovr, req, body, pos, inner, method,
                   body_strm, body_data, tokens, res, resp>>

\* MkcolCond going on without tokens when the evaluator fails.
MkcolCond_Proceeds ==
    /\ pc = "mk_cond"
    /\ \E out \in CondOutcomes :
        /\ log' = Append(log, EventStatus("if_match_get_tokens",
                                          IF out.ok THEN "Ok" ELSE "Err", out.status))
        /\ tokens' = out.toks /\ pc' = "mk_lock" /\ res' = res
    /\ UNCHANGED <<shared, aux, entry, ovr, req, body, pos, inner, method, path,
                   body_strm, body_data, meta, resp, ran>>

\* check the If and If-* headers.
MkcolCond ==
    /\ pc = "mk_cond"
    /\ \E out \in CondOutcomes :
        /\ log' = Append(log, EventStatus("if_match_get_tokens",
                                          IF out.ok THEN "Ok" ELSE "Err", out.status))
        /\ IF out.ok
           THEN tokens' = out.toks /\ pc' = "mk_lock" /\ res' = res
           ELSE tokens' = tokens /\ Fail(ErrStatus(out.status))
    /\ UNCHANGED <<shared, aux, entry, ovr, req, body, pos, inner, method, path,
                   body_strm, body_data, meta, resp, ran>>

\* if locked check if we hold that lock.
\* LockRefuses with the answer of the check discarded.
LockRefuses_Never(answer) == FALSE

\* What handle_mkcol does with the answer of locksystem.check.
LockRefuses(answer) == answer = "Conflict"

MkcolLock ==
    /\ pc = "mk_lock"
    /\ IF inner.ls # None
       THEN LET answer == IF ls_check(locks, path, inner.principal, tokens)
                          THEN "Ok" ELSE "Conflict"
            IN  /\ log' = Append(log, Event("ls.check", answer))
                /\ IF LockRefuses(answer)
                   THEN Fail(ErrStatus(423))
                   ELSE pc' = "mk_create" /\ res' = res
       ELSE log' = log /\ pc' = "mk_create" /\ res' = res
    /\ UNCHANGED <<shared, aux, entry, ovr, req, body, pos, inner, method, path,
                   body_strm, body_data, meta, tokens, resp, ran>>

\* MkcolResult with the arms of Exists and NotFound exchanged.
MkcolResult_Swapped(r, p) ==
    CASE r = "Exists"   -> ErrStatus(409)
      [] r = "NotFound" -> ErrStatus(405)
      [] r = "Ok"       -> OkRes(201,
                                 IF is_collection(p)
                                 THEN Some(as_url_string_with_prefix(add_slash(p)))
                                 ELSE None,
                                 None)
      [] OTHER          -> ErrFs(r)

\* MkcolResult answering 201 when the directory was already there.
MkcolResult_ExistsCreated(r, p) ==
    CASE r = "Exists"   -> OkRes(201, None, None)
      [] r = "NotFound" -> ErrStatus(409)
      [] r = "Ok"       -> OkRes(201,
                                 IF is_collection(p)
                                 THEN Some(as_url_string_with_prefix(add_slash(p)))
                                 ELSE None,
                                 None)
      [] OTHER          -> ErrFs(r)

\* The arms of the match on create_dir's result.
MkcolResult(r, p) ==
    CASE r = "Exists"   -> ErrStatus(405)
      [] r = "NotFound" -> ErrStatus(409)
      [] r = "Ok"       -> OkRes(201,
                                 IF is_collection(p)
                                 THEN Some(as_url_string_with_prefix(add_slash(p)))
                                 ELSE None,
                                 None)
      [] OTHER          -> ErrFs(r)

\* match blocking_io!(self.fs.create_dir(&path)).
MkcolCreate ==
    /\ pc = "mk_create"
    /\ \E r \in fs_create_dir(dirs, path) :
        /\ log' = Append(log, Event("fs.create_dir", r))
        /\ dirs' = IF r = "Ok" THEN dirs \cup {path.segs} ELSE dirs
        /\ path' = IF r = "Ok" /\ is_collection(path) THEN add_slash(path) ELSE path
        /\ res' = MkcolResult(r, path)
    /\ pc' = "map"
    /\ UNCHANGED <<config, locks, aux, entry, ovr, req, body, pos, inner, method,
                   body_strm, body_data, meta, tokens, resp, ran>>

\* ------------------------------------------------------------- mapper
\* DavError::statuscode.
statuscode(e) ==
    CASE e.tag \in {"Status", "StatusClose"} -> e.code
      [] e.tag = "FsError" /\ e.err = "NotFound" -> 404
      [] e.tag = "FsError" /\ e.err = "Exists"   -> 405
      [] OTHER -> 500

\* DavError::must_close.
must_close(e) == e.tag \in {"StatusClose", "IoError"}

\* Ok(resp) => Ok(resp): the handler's response as it is.
OkResponse(r) ==
    [set |-> TRUE, status |-> r.code, content_length_0 |-> FALSE,
     close |-> FALSE, no_cache |-> FALSE, loc |-> r.loc, allow |-> r.allow,
     body_empty |-> (r.body = "empty")]

\* ErrorResponse without the test of must_close.
ErrorResponse_NeverCloses(err, is_ms) ==
    [set |-> TRUE, status |-> statuscode(err), content_length_0 |-> TRUE,
     close |-> FALSE, no_cache |-> (is_ms /\ statuscode(err) = 404),
     loc |-> None, allow |-> None, body_empty |-> TRUE]

\* Err(err) => the response built from the error: the no-cache headers for
\* a Microsoft client's 404, Content-Length: 0, the status, connection:
\* close when the error must close, an empty body.
ErrorResponse(err, is_ms) ==
    [set |-> TRUE, status |-> statuscode(err), content_length_0 |-> TRUE,
     close |-> must_close(err), no_cache |-> (is_ms /\ statuscode(err) = 404),
     loc |-> None, allow |-> None, body_empty |-> TRUE]

\* DavInner::handle: Turn any DavError results into a HTTP error response.
MapResult ==
    /\ pc = "map"
    /\ \E is_ms \in BOOLEAN :
        resp' = IF res.tag = "Ok" THEN OkResponse(res) ELSE ErrorResponse(res, is_ms)
    /\ pc' = "done"
    /\ UNCHANGED <<shared, aux, entry, ovr, req, body, pos, inner, method, path,
                   body_strm, body_data, meta, tokens, res, log, ran>>

\* The call is over (a response was returned, or the task panicked); the
\* handler takes the next request.
Finish ==
    /\ pc \in {"done", "panic"}
    /\ pc' = "idle"
    /\ entry' = "none" /\ ovr' = NoConfig /\ req' = NoReq /\ body' = <<>> /\ pos' = 0
    /\ inner' = NoInner /\ method' = "none" /\ path' = NoPath
    /\ body_strm' = None /\ body_data' = <<>> /\ meta' = None /\ tokens' = <<>>
    /\ res' = NoRes /\ resp' = NoResp /\ log' = <<>> /\ ran' = NoRan
    /\ UNCHANGED <<shared, aux>>

Next ==
    \/ Receive
    \/ BuildInner
    \/ Classify
    \/ VoidGate
    \/ AllowGate
    \/ PathGate
    \/ BodySelect
    \/ ReadChunk
    \/ BodyCheck
    \/ HandleOptions
    \/ HandleOther
    \/ MkcolMetadata
    \/ MkcolCond
    \/ MkcolLock
    \/ MkcolCreate
    \/ MapResult
    \/ Finish

Spec == Init /\ [][Next]_vars

\* ------------------------------------------------------------- fixpath
\* How often fixpath is applied to one path and response.
MaxFixCalls == 2

\* The per-request variables of the dispatcher.
request == <<pc, entry, ovr, req, body, pos, inner, method, path, body_strm,
             body_data, meta, tokens, res, resp, log, ran>>

\* No request is in the dispatcher.
NoRequest == pc = "idle" /\ Fresh

\* fixpath with the test of the path inverted, as handle_mkcol has it.
fixpath_Inverted(loc, p, is_dir) ==
    IF is_dir /\ is_collection(p)
    THEN [path |-> add_slash(p),
          loc  |-> Some(as_url_string_with_prefix(add_slash(p)))]
    ELSE [path |-> p, loc |-> loc]

\* helper: add slash to path if it is a directory; the Content-Location
\* header of the response and the path after the call.
fixpath(loc, p, is_dir) ==
    IF is_dir /\ ~is_collection(p)
    THEN [path |-> add_slash(p),
          loc  |-> Some(as_url_string_with_prefix(add_slash(p)))]
    ELSE [path |-> p, loc |-> loc]

\* The paths, metadata and Content-Location headers fixpath is called with.
FixPaths ==
    { [segs |-> sg, col |-> c, prefix |-> pf, set |-> TRUE] :
        sg \in {<<>>, <<"a">>, <<"a", "b">>}, c \in BOOLEAN,
        pf \in {<<>>, <<"dav">>} }
FixHeaders == {None, Some([segs |-> <<"old">>, slash |-> FALSE])}

InitFixpath ==
    /\ config = NoConfig /\ dirs = {<<>>} /\ locks = {}
    /\ NoRequest
    /\ mrg = NoMerge /\ rq = NoRace
    /\ \E p \in FixPaths, d \in BOOLEAN, h \in FixHeaders :
        fix = [path |-> p, is_dir |-> d, loc |-> h, n |-> 0,
               path0 |-> p, loc0 |-> h]

\* A handler calls fixpath(&mut res, &mut path, meta).
FixpathCall ==
    /\ fix.n < MaxFixCalls
    /\ LET r == fixpath(fix.loc, fix.path, fix.is_dir)
       IN  fix' = [fix EXCEPT !.path = r.path, !.loc = r.loc, !.n = @ + 1]
    /\ UNCHANGED <<shared, request, mrg, rq>>

NextFixpath == FixpathCall

SpecFixpath == InitFixpath /\ [][NextFixpath]_vars

\* ------------------------------------------------------------- merge
\* The values a field of the receiver and of the argument of merge may hold.
MergeConfigs(v) ==
    { [prefix |-> p, fs |-> f, ls |-> l, allow |-> a, principal |-> pr,
       hide_symlinks |-> h] :
        p \in {None, Some(<<v>>)}, f \in {None, Some(v)}, l \in {None, Some(v)},
        a \in {None, Some({v})}, pr \in {None, Some(v)},
        h \in {None, Some(v = "new")} }

InitMerge ==
    /\ config = NoConfig /\ dirs = {<<>>} /\ locks = {}
    /\ NoRequest
    /\ fix = NoFix /\ rq = NoRace
    /\ \E b \in MergeConfigs("self"), n \in MergeConfigs("new") :
        mrg = [self |-> b, new |-> n, out |-> None]

\* handle_with calls self.config.merge(config).
MergeCall ==
    /\ mrg.out = None
    /\ mrg' = [mrg EXCEPT !.out = Some(merge(mrg.self, mrg.new))]
    /\ UNCHANGED <<shared, request, fix, rq>>

NextMerge == MergeCall

SpecMerge == InitMerge /\ [][NextMerge]_vars

\* ------------------------------------------------------------- concurrent requests
\* Three requests are in their handlers at once, each with its own context:
\* two MKCOL of /a and a LOCK of /a by the principal bob.  The filesystem and
\* the lock store are shared; a step is one call of a handler on them.
Mkcols == {"m1", "m2"}
RaceIds == Mkcols \cup {"lk"}
RaceUri == [ok |-> TRUE, segs |-> <<"a">>, slash |-> FALSE]

\* A request that has passed the gates of handle2 and enters its handler.
RaceRequest(op, principal) ==
    [op |-> op, pc |-> "start",
     inner |-> FromConfig(merge(config, [NoConfig EXCEPT !.principal = principal])),
     path |-> NoPath, meta |-> None, tokens |-> <<>>, res |-> NoRes, log |-> <<>>,
     at_create |-> {}]

InitRace ==
    /\ config \in {c \in BaseConfigs :
                     c.fs = Some("real") /\ c.prefix = None /\ c.allow = None}
    /\ dirs = {<<>>}
    /\ locks = {}
    /\ NoRequest
    /\ fix = NoFix /\ mrg = NoMerge
    /\ rq = [i \in RaceIds |->
                CASE i = "m1" -> RaceRequest("MKCOL", None)
                  [] i = "m2" -> RaceRequest("MKCOL", Some("alice"))
                  [] i = "lk" -> RaceRequest("LOCK", Some("bob"))]

\* The locks on a path that a principal does not own.
ForeignLocks(lks, p, principal) ==
    {l \in lks : l.path = p.segs /\ principal # Some(l.owner)}

\* handle_mkcol: let mut path = self.path(&req); let meta = self.fs.metadata(&path).
RaceMetadata(i) ==
    /\ rq[i].op = "MKCOL" /\ rq[i].pc = "start"
    /\ LET p == from_uri(RaceUri, rq[i].inner.prefix).p
           m == fs_metadata(dirs, p)
       IN  rq' = [rq EXCEPT ![i].path = p, ![i].meta = m,
                            ![i].log = Append(@, Event("fs.metadata",
                                          IF m # None THEN "Ok" ELSE "NotFound")),
                            ![i].pc = "mk_cond"]
    /\ UNCHANGED <<shared, request, fix, mrg>>

\* check the If and If-* headers.
RaceCond(i) ==
    /\ rq[i].pc = "mk_cond"
    /\ \E out \in CondOutcomes :
        rq' = [rq EXCEPT ![i].log = Append(@, EventStatus("if_match_get_tokens",
                                          IF out.ok THEN "Ok" ELSE "Err", out.status)),
                         ![i].tokens = IF out.ok THEN out.toks ELSE @,
                         ![i].res = IF out.ok THEN @ ELSE ErrStatus(out.status),
                         ![i].pc = IF out.ok THEN "mk_lock" ELSE "done"]
    /\ UNCHANGED <<shared, request, fix, mrg>>

\* if locked check if we hold that lock.
RaceLock(i) ==
    /\ rq[i].pc = "mk_lock"
    /\ IF rq[i].inner.ls # None
       THEN LET answer == IF ls_check(locks, rq[i].path, rq[i].inner.principal,
                                      rq[i].tokens)
                          THEN "Ok" ELSE "Conflict"
            IN  rq' = [rq EXCEPT ![i].log = Append(@, Event("ls.check", answer)),
                                 ![i].res = IF LockRefuses(answer)
                                            THEN ErrStatus(423) ELSE @,
                                 ![i].pc = IF LockRefuses(answer)
                                           THEN "done" ELSE "mk_create"]
       ELSE rq' = [rq EXCEPT ![i].pc = "mk_create"]
    /\ UNCHANGED <<shared, request, fix, mrg>>

\* match blocking_io!(self.fs.create_dir(&path)): the backend's create_dir
\* is one step; at_create keeps the locks of other principals the lock
\* store holds on the path at that moment.
RaceCreate(i) ==
    /\ rq[i].pc = "mk_create"
    /\ \E r \in fs_create_dir(dirs, rq[i].path) :
        /\ dirs' = IF r = "Ok" THEN dirs \cup {rq[i].path.segs} ELSE dirs
        /\ rq' = [rq EXCEPT ![i].log = Append(@, Event("fs.create_dir", r)),
                            ![i].at_create = ForeignLocks(locks, rq[i].path,
                                                          rq[i].inner.principal),
                            ![i].path = IF r = "Ok" /\ is_collection(@)
                                        THEN add_slash(@) ELSE @,
                            ![i].res = MkcolResult(r, rq[i].path),
                            ![i].pc = "done"]
    /\ UNCHANGED <<config, locks, request, fix, mrg>>

\* The LOCK handler: with a lock store, the lock is taken unless another
\* principal holds one on the path (423); without one the method fails.
RaceLockAcquire(i) ==
    /\ rq[i].op = "LOCK" /\ rq[i].pc = "start"
    /\ LET p == from_uri(RaceUri, rq[i].inner.prefix).p
           free == ForeignLocks(locks, p, rq[i].inner.principal) = {}
       IN  /\ locks' = IF rq[i].inner.ls # None /\ free
                       THEN locks \cup {Lock(p.segs, "t2", Unwrap(rq[i].inner.principal))}
                       ELSE locks
           /\ rq' = [rq EXCEPT ![i].path = p,
                               ![i].log = Append(@, Event("ls.lock",
                                             IF rq[i].inner.ls # None /\ free
                                             THEN "Ok" ELSE "Err")),
                               ![i].res = IF rq[i].inner.ls = None THEN ErrStatus(405)
                                          ELSE IF free THEN OkContent(200)
                                          ELSE ErrStatus(423),
                               ![i].pc = "done"]
    /\ UNCHANGED <<config, dirs, request, fix, mrg>>

NextRace ==
    \E i \in RaceIds :
        \/ RaceMetadata(i)
        \/ RaceCond(i)
        \/ RaceLock(i)
        \/ RaceCreate(i)
        \/ RaceLockAcquire(i)

SpecRace == InitRace /\ [][NextRace]_vars

\* ------------------------------------------------------------- properties
\* How often an operation appears in the request's log.
Count(op) == Len(SelectSeq(log, LAMBDA e : e.op = op))
\* No filesystem, lock-store or evaluator call was made for the request.
NoBackendCall == \A i \in 1..Len(log) : log[i].op = "read"
\* The answer of the last call of an operation ("" when it was not called).
LastAnswer(op) ==
    LET s == SelectSeq(log, LAMBDA e : e.op = op)
    IN  IF s = <<>> THEN "" ELSE s[Len(s)].r

\* The request has left handle2: its result is final.
Returned == pc \in {"map", "done"}
\* The request is beyond a gate of handle2.
PastClassify == pc \notin {"idle", "from", "panic", "classify"}
PastAllowGate == PastClassify /\ pc \notin {"voidgate", "allowgate"}
PastBodyCheck == PastAllowGate /\ pc \notin {"pathgate", "bodysel", "drain", "bodycheck"}
\* The method and path gates were passed.
PassedGates == path.set
\* The allowed-methods value the call was configured with.
ConfiguredAllow == IF entry = "handle" THEN config.allow ELSE merge(config, ovr).allow

\* C1: in a MKCOL with a lock store configured, when the lock store's check
\* reports a conflict the result is 423 Locked and create_dir is not called
\* for that request.
C1_LockConflictIs423 ==
    (ran.h = "handle_mkcol" /\ inner.ls # None /\ LastAnswer("ls.check") = "Conflict")
        => /\ res = ErrStatus(423)
           /\ Count("fs.create_dir") = 0
           /\ (pc = "done" => resp.status = 423)

C1_Witness ==
    /\ pc = "done" /\ ran.h = "handle_mkcol" /\ inner.ls # None
    /\ LastAnswer("ls.check") = "Conflict" /\ resp.status = 423

\* C2: every call of handle and of handle_with, under every configuration,
\* ends by returning a response; none ends in a panic.
C2_EveryCallResponds == pc # "panic"

\* C3: with the void filesystem every method other than OPTIONS ends in 405
\* without a handler or a backend call, whatever the allowed set says, and
\* only OPTIONS can succeed.
C3_VoidOnlyOptions ==
    (PastClassify /\ pc # "voidgate" /\ is_voidfs(inner.fs))
        => /\ (req.method # "OPTIONS"
                => /\ IsStatus(res, 405) /\ ran.h = "none" /\ log = <<>>
                   /\ (pc = "done" => resp.status = 405))
           /\ (res.tag = "Ok" => req.method = "OPTIONS")

\* The allowed set lists the method and the void filesystem still refuses it.
C3_Witness ==
    /\ pc = "done" /\ is_voidfs(inner.fs) /\ method = "MKCOL"
    /\ inner.allow # None /\ Allowed(Unwrap(inner.allow), "MKCOL")
    /\ resp.status = 405

\* C4: a request whose method token is outside the closed operation set ends
\* in 405; no filesystem call, no lock-store call and no read of the body
\* is made for it.
C4_UnknownMethodIs405 ==
    (PastClassify /\ req.method \notin Method)
        => /\ IsStatus(res, 405) /\ ran.h = "none"
           /\ log = <<>> /\ pos = 0
           /\ (pc = "done" => resp.status = 405)

C4_Witness ==
    /\ pc = "done" /\ req.method = "TRACE" /\ inner.fs = "real"
    /\ body # <<>> /\ resp.status = 405

\* C5: with an allowed-methods set configured, a request whose operation is
\* not in the set ends in 405, on a real and on the void filesystem alike,
\* with no handler, no body read and no backend call.
C5_NotAllowedIs405 ==
    (PastAllowGate /\ method \in Method
       /\ ConfiguredAllow # None /\ ~Allowed(Unwrap(ConfiguredAllow), method))
        => /\ IsStatus(res, 405) /\ ran.h = "none"
           /\ log = <<>> /\ pos = 0
           /\ (pc = "done" => resp.status = 405)

C5_Witness ==
    /\ pc = "done" /\ inner.fs = "real" /\ method = "DELETE"
    /\ ConfiguredAllow # None /\ ~Allowed(Unwrap(ConfiguredAllow), "DELETE")
    /\ resp.status = 405

\* OPTIONS, refused by the configured set, on the void filesystem.
C5_WitnessVoid ==
    /\ pc = "done" /\ is_voidfs(inner.fs) /\ method = "OPTIONS"
    /\ ConfiguredAllow # None /\ ~Allowed(Unwrap(ConfiguredAllow), "OPTIONS")
    /\ resp.status = 405

\* C6 as claimed: with the void filesystem and OPTIONS, whatever
\* allowed-methods value is configured, the effective set becomes {OPTIONS},
\* the permission gate is passed and the OPTIONS handler runs with that set.
C6_ForcedForEveryAllow ==
    (PastAllowGate /\ is_voidfs(inner.fs) /\ method = "OPTIONS")
        => /\ inner.allow = Some({"OPTIONS"})
           /\ ~IsStatus(res, 405)
           /\ (ran.h # "none" => ran.h = "handle_options" /\ ran.allow = Some({"OPTIONS"}))

\* C6 (amended): with the void filesystem and OPTIONS, when the configured
\* allowed-methods value is absent or contains OPTIONS the effective set
\* becomes exactly {OPTIONS}, the permission gate is passed, and the OPTIONS
\* handler (which runs when the path is valid and the body empty) is handed
\* that set; when the configured set does not contain OPTIONS it is left as
\* it is and the request ends in 405 without a handler.
C6_ForcedWhenOptionsAllowed ==
    (PastAllowGate /\ is_voidfs(inner.fs) /\ method = "OPTIONS")
        => IF ConfiguredAllow = None \/ Allowed(Unwrap(ConfiguredAllow), "OPTIONS")
           THEN /\ inner.allow = Some({"OPTIONS"})
                /\ ~IsStatus(res, 405)
                /\ (ran.h # "none"
                     => ran.h = "handle_options" /\ ran.allow = Some({"OPTIONS"}))
                /\ (Returned /\ PassedGates /\ AllOk(body) /\ TotalSize(body) = 0
                     => ran.h = "handle_options")
           ELSE /\ res = ErrStatusClose(405)
                /\ ran.h = "none"
                /\ inner.allow = ConfiguredAllow

\* A configured set with OPTIONS and other methods is cut down to {OPTIONS}.
C6_Witness ==
    /\ pc = "done" /\ is_voidfs(inner.fs) /\ ran.h = "handle_options"
    /\ ConfiguredAllow # None /\ Allowed(Unwrap(ConfiguredAllow), "MKCOL")
    /\ ran.allow = Some({"OPTIONS"}) /\ resp.allow = Some({"OPTIONS"})

\* C7: on a buffering method that passed the method and path gates, a body
\* of more than 65536 bytes ends in 413 without a handler or backend call;
\* a body of at most 65536 bytes is never answered with 413 and is buffered
\* as its chunks in order; the buffer never holds more than 65536 bytes.
C7_DrainCap ==
    /\ SumLen(body_data) <= MaxBodySize
    /\ (PassedGates /\ method \notin {"PUT", "PATCH"}
          /\ pc \notin {"bodysel", "drain"} /\ AllOk(body))
        => IF TotalSize(body) > MaxBodySize
           THEN /\ res = ErrStatus(413) /\ ran.h = "none" /\ NoBackendCall
                /\ (pc = "done" => resp.status = 413)
           ELSE /\ ~IsStatus(res, 413)
                /\ body_data = ChunkLens(body)

\* A body of exactly 65536 bytes in two chunks reaches its handler whole.
C7_Witness ==
    /\ pc = "done" /\ method = "PROPFIND" /\ ran.h = "handle_propfind"
    /\ Len(body) = 2 /\ AllOk(body) /\ TotalSize(body) = MaxBodySize
    /\ ran.data = ChunkLens(body)

C7_WitnessOver ==
    /\ pc = "done" /\ method = "PROPFIND" /\ AllOk(body)
    /\ TotalSize(body) = MaxBodySize + 1 /\ resp.status = 413

\* The operations that take no body.
NoBodyMethods == {"OPTIONS", "MKCOL", "DELETE", "UNLOCK", "GET", "HEAD", "COPY", "MOVE"}

\* C8 as claimed: on a method that takes no body and passed the gates, a
\* non-empty body of any size ends in 415 without a handler; on PROPFIND,
\* PROPPATCH and LOCK a non-empty body within the cap never ends in 415.
C8_AnyBodyIs415 ==
    (PassedGates /\ PastBodyCheck /\ AllOk(body) /\ TotalSize(body) > 0)
        => /\ (method \in NoBodyMethods => res = ErrStatus(415) /\ ran.h = "none")
           /\ (method \in {"PROPFIND", "PROPPATCH", "LOCK"}
                 /\ TotalSize(body) <= MaxBodySize => ~IsStatus(res, 415))

\* C8 (amended): on a method that takes no body and passed the gates, a
\* non-empty body of at most 65536 bytes ends in 415 and a larger one in
\* 413, in both cases without a handler; on PROPFIND, PROPPATCH and LOCK a
\* non-empty body within the cap never ends in 415.
C8_BodyWithinCapIs415 ==
    (PassedGates /\ PastBodyCheck /\ AllOk(body) /\ TotalSize(body) > 0)
        => /\ (method \in NoBodyMethods
                => /\ ran.h = "none" /\ NoBackendCall
                   /\ res = IF TotalSize(body) <= MaxBodySize
                            THEN ErrStatus(415) ELSE ErrStatus(413))
           /\ (method \in {"PROPFIND", "PROPPATCH", "LOCK"}
                 /\ TotalSize(body) <= MaxBodySize
                => /\ ~IsStatus(res, 415)
                   /\ (Returned => ran.h = HandlerOf(method)))

C8_Witness ==
    /\ pc = "done" /\ method = "DELETE" /\ AllOk(body)
    /\ TotalSize(body) = MaxBodySize /\ resp.status = 415

\* C9: on PUT and PATCH the dispatcher reads nothing from the body stream,
\* the PUT handler is handed the stream with every item unread and in order,
\* and the dispatcher itself answers neither 413 nor 415.
C9_PutStreamUntouched ==
    req.method \in {"PUT", "PATCH"}
        => /\ pos = 0 /\ Count("read") = 0 /\ body_data = <<>>
           /\ (ran.h = "none" => ~IsStatus(res, 413) /\ ~IsStatus(res, 415))
           /\ (ran.h # "none"
                => ran.h = "handle_put" /\ ran.strm = Some(body) /\ ran.data = <<>>)
           /\ (Returned /\ PassedGates => ran.h = "handle_put")

\* PATCH with a body over the cap reaches the PUT handler.
C9_Witness ==
    /\ pc = "done" /\ method = "PATCH" /\ ran.h = "handle_put"
    /\ Len(body) = 2 /\ AllOk(body) /\ TotalSize(body) > MaxBodySize
    /\ ran.strm = Some(body)

\* A MKCOL got through the evaluator and the lock check.
MkcolPassedChecks ==
    /\ ran.h = "handle_mkcol"
    /\ LastAnswer("if_match_get_tokens") = "Ok"
    /\ (inner.ls # None => LastAnswer("ls.check") = "Ok")

\* C10: a MKCOL that passed the conditional and lock checks calls create_dir
\* exactly once and its result follows from create_dir's answer alone:
\* Exists gives 405, NotFound 409, any other error the FsError carrying it,
\* success a 201 response.
C10_MkcolOutcome ==
    /\ Count("fs.create_dir") <= 1
    /\ (MkcolPassedChecks /\ Returned)
        => /\ Count("fs.create_dir") = 1
           /\ LET r == LastAnswer("fs.create_dir")
              IN  /\ (r = "Exists" => res = ErrStatus(405))
                  /\ (r = "NotFound" => res = ErrStatus(409))
                  /\ (r = "Ok" => res.tag = "Ok" /\ res.code = 201)
                  /\ (r \notin {"Exists", "NotFound", "Ok"} => res = ErrFs(r))
           /\ (pc = "done" /\ res.tag = "Ok" => resp.status = 201)

C10_Witness ==
    /\ pc = "done" /\ MkcolPassedChecks
    /\ LastAnswer("fs.create_dir") = "Exists" /\ resp.status = 405

C10_WitnessNotFound ==
    /\ pc = "done" /\ MkcolPassedChecks
    /\ LastAnswer("fs.create_dir") = "NotFound" /\ res = ErrStatus(409)

C10_WitnessOther ==
    /\ pc = "done" /\ MkcolPassedChecks
    /\ LastAnswer("fs.create_dir") = "Forbidden" /\ res = ErrFs("Forbidden")

C10_WitnessCreated ==
    /\ pc = "done" /\ MkcolPassedChecks /\ inner.ls # None
    /\ LastAnswer("fs.create_dir") = "Ok" /\ resp.status = 201

\* C11: a successful MKCOL whose request path lacked the trailing slash
\* answers 201 with Content-Location set to the prefix-qualified path with
\* the slash appended.
C11_MkcolContentLocation ==
    (ran.h = "handle_mkcol" /\ Returned /\ LastAnswer("fs.create_dir") = "Ok"
       /\ ~req.uri.slash)
        => /\ res.tag = "Ok" /\ res.code = 201
           /\ res.loc = Some([segs |-> req.uri.segs, slash |-> TRUE])

\* C12: fixpath appends the slash and sets Content-Location to the
\* prefix-qualified path with the slash exactly when the metadata reports a
\* directory and the path is not in collection form; otherwise the path and
\* the header are as they were; a second application changes nothing.
C12_Fixpath ==
    [][ /\ fix'.n >= 1 =>
            IF fix'.is_dir /\ ~fix'.path0.col
            THEN /\ fix'.path = [fix'.path0 EXCEPT !.col = TRUE]
                 /\ fix'.loc = Some([segs  |-> fix'.path0.prefix \o fix'.path0.segs,
                                     slash |-> TRUE])
            ELSE fix'.path = fix'.path0 /\ fix'.loc = fix'.loc0
        /\ fix.n >= 1 => (fix'.path = fix.path /\ fix'.loc = fix.loc) ]_vars
\* fixpath ran twice on a directory whose path lacked the slash.
C12_Witness ==
    fix.n = 2 /\ fix.is_dir /\ ~fix.path0.col /\ fix.path.col /\ fix.loc # fix.loc0
\* fixpath ran on a file and on a path already in collection form.
C12_WitnessFile == fix.n = 1 /\ ~fix.is_dir /\ fix.loc = fix.loc0 /\ fix.loc # None
C12_WitnessSlash == fix.n = 1 /\ fix.is_dir /\ fix.path0.col /\ fix.loc = None

\* C15: merge yields, per field, the argument's value when it is present and
\* the receiver's otherwise; the receiver is unchanged; merging the
\* all-absent configuration yields the receiver's values.
C15_Merge ==
    [][ /\ mrg'.self = mrg.self
        /\ \A o \in mrg'.out :
            /\ o.prefix = (IF mrg.new.prefix # None THEN mrg.new.prefix ELSE mrg.self.prefix)
            /\ o.fs = (IF mrg.new.fs # None THEN mrg.new.fs ELSE mrg.self.fs)
            /\ o.ls = (IF mrg.new.ls # None THEN mrg.new.ls ELSE mrg.self.ls)
            /\ o.allow = (IF mrg.new.allow # None THEN mrg.new.allow ELSE mrg.self.allow)
            /\ o.principal = (IF mrg.new.principal # None THEN mrg.new.principal
                              ELSE mrg.self.principal)
            /\ o.hide_symlinks = (IF mrg.new.hide_symlinks # None
                                  THEN mrg.new.hide_symlinks ELSE mrg.self.hide_symlinks)
            /\ (mrg.new = NoConfig => o = mrg.self) ]_vars
\* merge ran with both sides holding an allowed set, and with an all-absent
\* argument on a receiver that holds values.
C15_Witness ==
    mrg.out # None /\ mrg.self.allow # None /\ mrg.new.allow # None
        /\ mrg.new.fs = None /\ mrg.self.fs # None
C15_WitnessEmpty == mrg.out = Some(mrg.self) /\ mrg.new = NoConfig /\ mrg.self # NoConfig

\* C13: the response of a failed request carries the error's status code,
\* Content-Length: 0 and an empty body, and Connection: close exactly when
\* the error must close; the response of a handler that succeeded is
\* returned as the handler built it.
C13_ErrorMapper ==
    pc = "done" =>
        IF res.tag = "Ok"
        THEN /\ resp.status = res.code /\ resp.loc = res.loc /\ resp.allow = res.allow
             /\ resp.body_empty = (res.body = "empty")
             /\ ~resp.content_length_0 /\ ~resp.close /\ ~resp.no_cache
        ELSE /\ resp.status = statuscode(res)
             /\ resp.content_length_0 /\ resp.body_empty
             /\ resp.close = must_close(res)
\* A closing error, a non-closing error and a success with a body were mapped.
C13_Witness == pc = "done" /\ res.tag = "StatusClose" /\ resp.close /\ resp.status = 405
C13_WitnessOpen == pc = "done" /\ res = ErrStatus(415) /\ ~resp.close /\ resp.status = 415
C13_WitnessOk == pc = "done" /\ res.tag = "Ok" /\ ~resp.body_empty /\ resp.status = 200

\* C14: when a read of the body fails while it is being drained, the
\* request ends there with the I/O error, no handler and no backend is
\* called, and the response carries Connection: close.
C14_ReadFailureCloses ==
    LastAnswer("read") = "Err"
        => /\ Returned
           /\ res.tag = "IoError" /\ res.err = "UnexpectedEof"
           /\ ran.h = "none" /\ NoBackendCall
           /\ Count("read") = pos /\ ~body[pos].ok
           /\ (pc = "done" => resp.close /\ resp.content_length_0 /\ resp.body_empty)
\* The second read of a body failed and the response was built.
C14_Witness ==
    pc = "done" /\ LastAnswer("read") = "Err" /\ pos = 2 /\ body[1].ok /\ resp.close

\* The positions of an operation's calls in the request's log.
Calls(op) == {i \in 1..Len(log) : log[i].op = op}

\* C17: in a MKCOL the precondition evaluator is called once, after the
\* metadata lookup whatever it found, and has answered before create_dir is
\* called; when it fails the request returns the status it gave and calls
\* neither the lock check nor create_dir; create_dir is called only after
\* the evaluator succeeded and, with a lock store, after the check succeeded.
C17_MkcolOrder ==
    ran.h = "handle_mkcol" =>
        /\ Count("if_match_get_tokens") <= 1
        /\ (Returned => Count("if_match_get_tokens") = 1)
        /\ \A i \in Calls("if_match_get_tokens") :
            /\ \E g \in Calls("fs.metadata") : g < i
            /\ log[i].r = "Err" =>
                /\ Returned /\ res.tag = "Status" /\ res.code = log[i].code
                /\ Calls("ls.check") = {} /\ Calls("fs.create_dir") = {}
        /\ \A k \in Calls("ls.check") :
            \E i \in Calls("if_match_get_tokens") : i < k /\ log[i].r = "Ok"
        /\ \A j \in Calls("fs.create_dir") :
            /\ \E i \in Calls("if_match_get_tokens") : i < j /\ log[i].r = "Ok"
            /\ inner.ls # None =>
                \E k \in Calls("ls.check") : k < j /\ log[k].r = "Ok"
\* The evaluator failed on a target that exists, and create_dir ran behind
\* the evaluator and the lock check on a target that does not.
C17_Witness ==
    /\ pc = "done" /\ ran.h = "handle_mkcol" /\ LastAnswer("if_match_get_tokens") = "Err"
    /\ LastAnswer("fs.metadata") = "Ok" /\ resp.status = 412
C17_WitnessCreate ==
    /\ ran.h = "handle_mkcol" /\ LastAnswer("fs.metadata") = "NotFound"
    /\ inner.ls # None /\ LastAnswer("ls.check") = "Ok" /\ LastAnswer("fs.create_dir") = "Ok"

\* The error of the first read of a drained body that fails or passes the
\* cap, given the bytes buffered before it; NoRes when the drain succeeds.
RECURSIVE DrainFailure(_, _)
DrainFailure(b, size) ==
    IF b = <<>> THEN NoRes
    ELSE IF ~b[1].ok THEN ErrIo("UnexpectedEof")
    ELSE IF size + b[1].len > MaxBodySize THEN ErrStatus(413)
    ELSE DrainFailure(Tail(b), size + b[1].len)

\* The error of the first check that fails when the checks of handle2 are
\* taken in the order: method classification, backend-availability gate,
\* allow-list gate, path validation, body drain, unexpected-body check;
\* NoRes when all of them pass.
FirstFailure ==
    IF req.method \notin Method THEN ErrStatus(405)
    ELSE IF inner.fs = "void" /\ req.method # "OPTIONS" THEN ErrStatusClose(405)
    ELSE IF ConfiguredAllow # None /\ req.method \notin Unwrap(ConfiguredAllow)
    THEN ErrStatusClose(405)
    ELSE IF ~(req.uri.ok /\ IsPrefix(inner.prefix, req.uri.segs)) THEN ErrStatus(400)
    ELSE IF req.method \notin {"PUT", "PATCH"} /\ DrainFailure(body, 0) # NoRes
    THEN DrainFailure(body, 0)
    ELSE IF req.method \in NoBodyMethods /\ TotalSize(body) > 0 THEN ErrStatus(415)
    ELSE NoRes

\* C18: handle2 makes its checks in a fixed order (method classification,
\* backend-availability gate, allow-list gate, path validation, body drain
\* or stream, unexpected-body check); the first check that fails in this
\* order gives the result, without any backend call; a handler, and with it
\* the filesystem and the lock store, is reached only when all have passed.
C18_GateOrder ==
    /\ (Returned /\ ran.h = "none") => (res = FirstFailure /\ NoBackendCall)
    /\ ran.h # "none" => (FirstFailure = NoRes /\ PastBodyCheck)
    /\ ~NoBackendCall => ran.h # "none"
\* Requests that fail two checks got the error of the earlier one.
C18_Witness ==
    /\ Returned /\ ran.h = "none" /\ res = ErrStatusClose(405)
    /\ inner.fs = "real" /\ ~req.uri.ok /\ body # <<>>
C18_WitnessPath ==
    /\ Returned /\ res = ErrStatus(400) /\ req.method = "MKCOL"
    /\ body = <<Chunk(1), ReadError>>
C18_WitnessDrain ==
    /\ Returned /\ res = ErrStatus(413) /\ req.method = "GET"
    /\ body = <<Chunk(1), Chunk(MaxBodySize)>>

\* The configuration the entry point builds the context from.
CallConfig == IF entry = "handle" THEN config ELSE merge(config, ovr)
\* The void gate has replaced the allowed set of this request's context.
AllowForced ==
    /\ PastClassify /\ pc # "voidgate"
    /\ inner.fs = "void" /\ method = "OPTIONS"
    /\ (CallConfig.allow = None \/ "OPTIONS" \in Unwrap(CallConfig.allow))
\* The context of the request in flight is the one built from the handler's
\* configuration and the call's override, but for the forced allowed set.
ContextFromConfig ==
    PastClassify =>
        /\ inner.prefix = UnwrapOr(CallConfig.prefix, <<>>)
        /\ inner.fs = UnwrapOr(CallConfig.fs, "void")
        /\ inner.ls = CallConfig.ls
        /\ inner.principal = CallConfig.principal
        /\ inner.hide_symlinks = CallConfig.hide_symlinks
        /\ inner.allow = (IF AllowForced THEN Some({"OPTIONS"}) ELSE CallConfig.allow)

RaceStatus(i) ==
    IF rq[i].res.tag = "Ok" THEN rq[i].res.code ELSE statuscode(rq[i].res)
\* The answers create_dir gave a concurrent request.
RaceCreateAnswers(i) ==
    {rq[i].log[k].r : k \in {n \in 1..Len(rq[i].log) : rq[i].log[n].op = "fs.create_dir"}}
\* Both MKCOL have returned, no lock was taken on the path, neither
\* request's preconditions failed and the backend reported no failure of
\* its own.
CleanRace ==
    /\ \A i \in Mkcols : rq[i].pc = "done"
    /\ locks = {}
    /\ \A i \in Mkcols : \A k \in 1..Len(rq[i].log) : rq[i].log[k].r # "Err"
    /\ \A i \in Mkcols : RaceCreateAnswers(i) \subseteq {"Ok", "Exists", "NotFound"}

\* C16: of two MKCOL racing for the same absent path with its parent
\* present, never both answer 201; when no lock is held, no precondition
\* fails and create_dir answers by its contract, one answers 201 and the
\* other 405, under every interleaving.
C16_OneWinner ==
    /\ ~(\A i \in Mkcols : rq[i].res.tag = "Ok")
    /\ CleanRace =>
        /\ \E w \in Mkcols : \E l \in Mkcols \ {w} :
              RaceStatus(w) = 201 /\ RaceStatus(l) = 405
        /\ \A i \in Mkcols : RaceStatus(i) \in {201, 405, 409}
\* Both requests looked the target up before either created it, and the
\* one that called create_dir second lost.
C16_Witness ==
    /\ CleanRace
    /\ \A i \in Mkcols : rq[i].meta = None /\ RaceCreateAnswers(i) # {}
    /\ RaceStatus("m2") = 201 /\ RaceStatus("m1") = 405

\* C19: create_dir of a MKCOL is never called while another principal
\* holds a lock on the path.
C19_NoCreateUnderLock ==
    \A i \in Mkcols : rq[i].at_create = {}

\* C21: while a handler runs, the dispatcher has validated the URI of the
\* same request against the prefix the context still has, so the handler's
\* unchecked re-parse of the path does not fail; a request whose URI is
\* invalid or does not begin with the prefix reaches no handler.
C21_PathCheckedBeforeHandler ==
    /\ ran.h # "none" =>
        /\ req.uri.ok /\ IsPrefix(inner.prefix, req.uri.segs)
        /\ path.set /\ path.prefix = inner.prefix
        /\ path.segs = SubSeq(req.uri.segs, Len(inner.prefix) + 1, Len(req.uri.segs))
        /\ inner.prefix = UnwrapOr(CallConfig.prefix, <<>>)
        /\ pc # "panic"
    /\ (PastClassify /\ ~(req.uri.ok /\ IsPrefix(inner.prefix, req.uri.segs)))
        => ran.h = "none"
\* handle_mkcol re-parsed the URI below a non-empty prefix and went on.
C21_Witness ==
    /\ ran.h = "handle_mkcol" /\ pc = "mk_cond" /\ inner.prefix = <<"dav">>
    /\ path.segs = <<"a">> /\ Count("fs.metadata") = 1
\* A URI outside the prefix was answered 400 without a handler.
C21_WitnessOutside ==
    /\ Returned /\ res = ErrStatus(400) /\ req.uri.ok /\ inner.prefix = <<"dav">>
    /\ ran.h = "none" /\ req.method = "MKCOL"

====
